---- MODULE Spec2Model ----
(***************************************************************************)
(* A model of personalfinancecalculator.py: the two numeric-input          *)
(* validators, the loan, compound-interest, savings-goal and budget        *)
(* calculators and the menu loop of main().                                *)
(*                                                                         *)
(* Numbers.  Every number of the program is a Python float (or a small     *)
(* int that Python promotes to a float in the same expressions).  A float  *)
(* is modelled as a binary floating-point value m * 2^e with a significand *)
(* of at most Precision bits, an unbounded exponent and round-to-nearest,  *)
(* ties-to-even, which is the arithmetic of IEEE-754 binary64 except that  *)
(* binary64 has 53 significand bits and a bounded exponent (no overflow to *)
(* inf and no underflow is modelled).  Every arithmetic operator of the    *)
(* source is translated to the correctly rounded operation.                *)
(***************************************************************************)
EXTENDS Integers, Sequences, FiniteSets, TLC

\* Significand width of the modelled float format (binary64: 53).
Precision == 8

----------------------------------------------------------------------------
(* Integer helpers *)

RECURSIVE Pow2(_)
Pow2(k) == IF k <= 0 THEN 1 ELSE 2 * Pow2(k - 1)

RECURSIVE IPow(_, _)
IPow(b, k) ==
    IF k <= 0 THEN 1
    ELSE IF k % 2 = 0 THEN IPow(b * b, k \div 2)
    ELSE b * IPow(b, k - 1)

RECURSIVE BitLen(_)
BitLen(n) == IF n <= 0 THEN 0 ELSE 1 + BitLen(n \div 2)

Abs(i) == IF i < 0 THEN -i ELSE i

Max(a, b) == IF a >= b THEN a ELSE b

Min(a, b) == IF a <= b THEN a ELSE b

----------------------------------------------------------------------------
(* Floats: [m |-> significand, e |-> exponent], value m * 2^e, canonical   *)
(* form: m odd, or m = 0 and e = 0, so that equal values are equal records *)

RECURSIVE Norm(_, _)
Norm(m, e) ==
    IF m = 0 THEN [m |-> 0, e |-> 0]
    ELSE IF m % 2 = 0 THEN Norm(m \div 2, e + 1)
    ELSE [m |-> m, e |-> e]

FNeg(x) == [m |-> -x.m, e |-> x.e]

\* The magnitude a * 2^e (plus a non-zero amount below the last bit of a when
\* sticky), rounded to Precision bits, to nearest, ties to even.
RoundMag(a, e, sticky) ==
    LET k == BitLen(a) - Precision
    IN  IF k <= 0 THEN Norm(a, e)
        ELSE LET q    == a \div Pow2(k)
                 r    == a % Pow2(k)
                 half == Pow2(k - 1)
                 up   == \/ r > half
                         \/ r = half /\ sticky
                         \/ r = half /\ q % 2 = 1
             IN  Norm(IF up THEN q + 1 ELSE q, e + k)

Round(m, e) ==
    IF m < 0 THEN FNeg(RoundMag(-m, e, FALSE)) ELSE RoundMag(m, e, FALSE)

\* The correctly rounded quotient (n / d) * 2^e of two integers, d > 0.
RoundQuot(n, d, e) ==
    LET a == Abs(n)
        s == Max(0, Precision + 2 + BitLen(d) - BitLen(a))
        q == (a * Pow2(s)) \div d
        r == (a * Pow2(s)) % d
        v == RoundMag(q, e - s, r # 0)
    IN  IF n = 0 THEN [m |-> 0, e |-> 0]
        ELSE IF n < 0 THEN FNeg(v) ELSE v

\* An integer literal of the source as a float.
F(i) == Round(i, 0)

Zero == [m |-> 0, e |-> 0]

\* Position of the leading bit: |x| is in [2^(Top(x)-1), 2^Top(x)).
Top(x) == x.e + BitLen(Abs(x.m))

\* x + y
FAdd(x, y) ==
    IF x.m = 0 THEN y
    ELSE IF y.m = 0 THEN x
    ELSE IF Top(x) - Top(y) > Precision + 1 THEN x
    ELSE IF Top(y) - Top(x) > Precision + 1 THEN y
    ELSE LET e == Min(x.e, y.e)
         IN  Round(x.m * Pow2(x.e - e) + y.m * Pow2(y.e - e), e)

\* x - y
FSub(x, y) == FAdd(x, FNeg(y))

\* x * y
FMul(x, y) == Round(x.m * y.m, x.e + y.e)

\* x / y, y # 0 (every division of the source is guarded)
FDiv(x, y) ==
    IF y.m < 0 THEN RoundQuot(-x.m, -y.m, x.e - y.e)
    ELSE RoundQuot(x.m, y.m, x.e - y.e)

\* x < y, x <= y, x > y, x >= y: the difference never rounds across zero.
FLt(x, y) == FSub(x, y).m < 0
FLe(x, y) == FSub(x, y).m <= 0
FGt(x, y) == FLt(y, x)
FGe(x, y) == FLe(y, x)

\* The value of a float that is a non-negative integer.
NatOf(x) == x.m * Pow2(x.e)

\* x ** n for a float n holding a non-negative integer (the exponents of the
\* source are the month counts years * 12 and compound_frequency * years).
FPow(x, n) ==
    LET k == NatOf(n)
        a == IPow(Abs(x.m), k)
        v == RoundMag(a, x.e * k, FALSE)
    IN  IF k = 0 THEN F(1)
        ELSE IF x.m < 0 /\ k % 2 = 1 THEN FNeg(v) ELSE v

----------------------------------------------------------------------------
(* Text: what input() returns is a sequence of one-character strings *)

IsSpace(c) == c = " "

Digits == <<"0", "1", "2", "3", "4", "5", "6", "7", "8", "9">>

IsDigit(c) == \E i \in DOMAIN Digits : Digits[i] = c

DigitVal(c) == (CHOOSE i \in DOMAIN Digits : Digits[i] = c) - 1

RECURSIVE DigitsValue(_)
DigitsValue(ds) ==
    IF ds = <<>> THEN 0
    ELSE 10 * DigitsValue(SubSeq(ds, 1, Len(ds) - 1)) + DigitVal(ds[Len(ds)])

RECURSIVE lstrip(_)
lstrip(s) == IF s # <<>> /\ IsSpace(Head(s)) THEN lstrip(Tail(s)) ELSE s

RECURSIVE rstrip(_)
rstrip(s) ==
    IF s # <<>> /\ IsSpace(s[Len(s)]) THEN rstrip(SubSeq(s, 1, Len(s) - 1))
    ELSE s

\* str.strip()
strip(s) == rstrip(lstrip(s))

UpperCase == <<"A", "B", "C", "D", "E", "F", "G", "H", "I", "J", "K", "L", "M",
               "N", "O", "P", "Q", "R", "S", "T", "U", "V", "W", "X", "Y", "Z">>

LowerCase == <<"a", "b", "c", "d", "e", "f", "g", "h", "i", "j", "k", "l", "m",
               "n", "o", "p", "q", "r", "s", "t", "u", "v", "w", "x", "y", "z">>

\* str.lower()
lower(s) ==
    [i \in DOMAIN s |->
        IF \E k \in DOMAIN UpperCase : UpperCase[k] = s[i]
        THEN LowerCase[CHOOSE k \in DOMAIN UpperCase : UpperCase[k] = s[i]]
        ELSE s[i]]

\* A value that is no float: an unset result, a figure that was not printed.
None == [m |-> 0, e |-> 1]

\* float(s) or int(s) raising ValueError.
ValueError == [ok |-> FALSE, value |-> None]

\* float(s) for the plain decimal forms: surrounding blanks, a sign, digits
\* with at most one point.  The result is the float nearest to the decimal.
\* (The exponent, inf/nan and underscore forms are left out: no text of the
\* model uses them.)
float(s) ==
    LET t          == strip(s)
        signed     == t # <<>> /\ Head(t) \in {"+", "-"}
        body       == IF signed THEN Tail(t) ELSE t
        points     == {i \in DOMAIN body : body[i] = "."}
        digits     == SelectSeq(body, IsDigit)
        wellformed == /\ Cardinality(points) <= 1
                      /\ \A i \in DOMAIN body : IsDigit(body[i]) \/ body[i] = "."
                      /\ digits # <<>>
        scale      == IF points = {} THEN 0
                      ELSE Len(body) - (CHOOSE i \in points : TRUE)
        magnitude  == RoundQuot(DigitsValue(digits), IPow(10, scale), 0)
    IN  IF ~wellformed THEN ValueError
        ELSE [ok    |-> TRUE,
              value |-> IF Head(t) = "-" THEN FNeg(magnitude) ELSE magnitude]

\* int(s) for the plain forms: surrounding blanks, a sign, digits; ok is
\* FALSE where int(s) raises ValueError.
int(s) ==
    LET t      == strip(s)
        signed == t # <<>> /\ Head(t) \in {"+", "-"}
        body   == IF signed THEN Tail(t) ELSE t
    IN  IF body = <<>> \/ \E i \in DOMAIN body : ~IsDigit(body[i])
        THEN [ok |-> FALSE, n |-> 0]
        ELSE [ok |-> TRUE,
              n  |-> IF Head(t) = "-" THEN -DigitsValue(body)
                     ELSE DigitsValue(body)]

----------------------------------------------------------------------------
(* State *)

VARIABLES
    \* a calculator run with patched validators, as the tests run them
    fn,     \* the calculator last run, or "none"
    args,   \* the values the validators handed to it, in call order
    res,    \* what it printed: the outcome and the figures of its results block
    \* the frequency selection of compound_interest_calculator
    compound_frequency, \* the local variable: 0 until a selection is accepted
    frequency_typed,    \* what was typed at the selection prompt, in order
    frequency_printed,  \* the messages printed by the selection loop
    \* a validator reading the standard input
    stdin,   \* the entries typed, one per input() call
    pos,     \* how many of them input() has handed out
    vfn,     \* the validator called last, or "none"
    vstart,  \* pos when it was called
    vstatus, \* "idle", "prompting", "returned" or "EOFError"
    value,   \* the value it returned
    printed, \* the messages it has printed since it was called
    \* budget_tracker
    bphase,          \* "idle", "income", "expenses" or "summary"
    income_items,
    expense_items,
    total_income,
    total_expenses,
    summary,         \* the figures of BUDGET ANALYSIS and the recommendation
    label_prompts,   \* calls of input() for a source or a category
    labels_typed,    \* what those calls handed out, in order
    amount_requests, \* calls of get_positive_number
    \* main
    pc,        \* "not_started", "loop", "pause", "exited", "UnboundLocalError"
    choice,    \* the local variable choice: unbound, or an int
    selection, \* the text entered at the last selection prompt
    ran,       \* the calculator called in the last iteration, or "none"
    message,   \* the message main printed in the last iteration, or "none"
    menus      \* calls of display_menu

frequencyVars == <<compound_frequency, frequency_typed, frequency_printed>>

calcVars == <<fn, args, res, frequencyVars>>

inputVars == <<stdin, pos, vfn, vstart, vstatus, value, printed>>

budgetVars == <<bphase, income_items, expense_items, total_income,
                total_expenses, summary, label_prompts, labels_typed,
                amount_requests>>

mainVars == <<pc, choice, selection, ran, message, menus>>

vars == <<calcVars, inputVars, budgetVars, mainVars>>

----------------------------------------------------------------------------
(* savings_goal_calculator: the four prompted values to what is printed *)

\* Lines 413-427: the recommendation printed below the results block.
SavingsNarrative(monthly_savings, current_savings, goal_amount) ==
    IF FGt(monthly_savings, Zero) THEN "recommendation"
    ELSE IF monthly_savings = Zero /\ FLt(current_savings, goal_amount)
         THEN "great_news"
    ELSE IF monthly_savings = Zero /\ FGe(current_savings, goal_amount)
         THEN "goal_achieved"
    ELSE "none"

\* Lines 398-427: totals, the results block and the recommendation.
SavingsResults(goal_amount, current_savings, months, monthly_savings) ==
    LET total_contributions == FMul(monthly_savings, months)
        total_growth == FSub(FSub(goal_amount, current_savings),
                             total_contributions)
    IN  [outcome             |-> "results",
         monthly_savings     |-> monthly_savings,
         total_contributions |-> total_contributions,
         total_growth        |-> total_growth,
         narrative           |-> SavingsNarrative(monthly_savings,
                                                  current_savings, goal_amount)]

\* An outcome without a results block: a congratulation or an error message.
NoResults(outcome) ==
    [outcome             |-> outcome,
     monthly_savings     |-> None,
     total_contributions |-> None,
     total_growth        |-> None,
     narrative           |-> "none"]

\* Line 363 with > in place of >=.
GoalAlreadyMet_strict(current_savings, goal_amount) ==
    FGt(current_savings, goal_amount)

\* Line 363: the check that the goal is already met.
GoalAlreadyMet(current_savings, goal_amount) ==
    FGe(current_savings, goal_amount)

savings_goal_calculator(goal_amount, current_savings, time_years, annual_return) ==
    LET amount_needed  == FSub(goal_amount, current_savings)
        monthly_return == FDiv(FDiv(annual_return, F(100)), F(12))
        months         == FMul(time_years, F(12))
        future_value_current_savings ==
            FMul(current_savings, FPow(FAdd(F(1), monthly_return), months))
        remaining_needed_after_growth ==
            FSub(goal_amount, future_value_current_savings)
        annuity_factor ==
            FDiv(FSub(FPow(FAdd(F(1), monthly_return), months), F(1)),
                 monthly_return)
    IN  IF GoalAlreadyMet(current_savings, goal_amount) THEN
            NoResults("already_met")
        ELSE IF monthly_return = Zero THEN
            IF months = Zero THEN NoResults("error_zero_time")
            ELSE SavingsResults(goal_amount, current_savings, months,
                                FDiv(amount_needed, months))
        ELSE IF FLe(remaining_needed_after_growth, Zero) THEN
            SavingsResults(goal_amount, current_savings, months, Zero)
        ELSE IF annuity_factor = Zero THEN
            NoResults("error_cannot_calculate")
        ELSE
            SavingsResults(goal_amount, current_savings, months,
                           FDiv(remaining_needed_after_growth, annuity_factor))

----------------------------------------------------------------------------
(* loan_payment_calculator: the three prompted values to what is printed *)

LoanResults(principal, num_payments, monthly_payment) ==
    LET total_payment  == FMul(monthly_payment, num_payments)
        total_interest == FSub(total_payment, principal)
    IN  [outcome         |-> "results",
         monthly_payment |-> monthly_payment,
         total_payment   |-> total_payment,
         total_interest  |-> total_interest]

LoanNoResults(outcome) ==
    [outcome         |-> outcome,
     monthly_payment |-> None,
     total_payment   |-> None,
     total_interest  |-> None]

loan_payment_calculator(principal, annual_rate, years) ==
    LET monthly_rate == FDiv(FDiv(annual_rate, F(100)), F(12))
        num_payments == FMul(years, F(12))
    IN  IF monthly_rate = Zero THEN
            IF num_payments = Zero THEN LoanNoResults("error_zero_term")
            ELSE LoanResults(principal, num_payments,
                             FDiv(principal, num_payments))
        ELSE
        LET denominator ==
                FSub(FPow(FAdd(F(1), monthly_rate), num_payments), F(1))
        IN  IF denominator = Zero THEN LoanNoResults("error_cannot_calculate")
            ELSE LoanResults(principal, num_payments,
                     FDiv(FMul(principal,
                               FMul(monthly_rate,
                                    FPow(FAdd(F(1), monthly_rate), num_payments))),
                          denominator))

----------------------------------------------------------------------------
(* compound_interest_calculator: the three prompted values, the selection  *)
(* of the compounding frequency, and what is printed                       *)

\* Line 177 with quarterly compounding entered as 3.
frequency_options_quarterly_3(selected) == <<1, 2, 3, 12, 365>>[selected]

\* Line 177: frequency_options[selected], for selected in frequency_options.
frequency_options(selected) == <<1, 2, 4, 12, 365>>[selected]

\* Line 183: choice in frequency_options.
InFrequencyOptions(selected) == selected \in 1..5

\* Lines 191-206: the figures of the results block.
CompoundResults(principal, annual_rate, years, frequency) ==
    LET rate            == FDiv(annual_rate, F(100))
        final_amount    ==
            FMul(principal,
                 FPow(FAdd(F(1), FDiv(rate, F(frequency))),
                      FMul(F(frequency), years)))
        interest_earned == FSub(final_amount, principal)
    IN  [outcome         |-> "results",
         compounding     |-> frequency,
         final_amount    |-> final_amount,
         interest_earned |-> interest_earned]

\* The calculator is at its selection prompt: no results yet.
Selecting ==
    [outcome         |-> "selecting",
     compounding     |-> 0,
     final_amount    |-> None,
     interest_earned |-> None]

\* b ** k is small enough for the integers of the model.
RECURSIVE IPowFits(_, _)
IPowFits(b, k) ==
    IF k <= 0 \/ b <= 1 THEN TRUE
    ELSE IF k > 30 THEN FALSE
    ELSE IPowFits(b, k - 1) /\ IPow(b, k - 1) <= Pow2(30) \div b

\* The run's power (line 195) is one FPow computes: a whole exponent and a
\* significand whose power fits.  Runs with other powers are left out.
PowerInRange(annual_rate, years, frequency) ==
    LET base     == FAdd(F(1), FDiv(FDiv(annual_rate, F(100)), F(frequency)))
        exponent == FMul(F(frequency), years)
    IN  /\ exponent.e >= 0
        /\ IPowFits(Abs(base.m), NatOf(exponent))

\* Lines 160-178: the three values are prompted for, the menu of frequencies
\* is printed and compound_frequency is set to 0.
StartCompound(principal, annual_rate, years) ==
    /\ fn = "none"
    /\ fn' = "compound_interest_calculator"
    /\ args' = <<principal, annual_rate, years>>
    /\ res' = Selecting
    /\ compound_frequency' = 0
    /\ frequency_typed' = <<>>
    /\ frequency_printed' = <<>>

\* Lines 180-206: one iteration of the selection loop on the text entered,
\* and on an accepted selection the rest of the function.
SelectFrequency(entered) ==
    LET parsed == int(entered)
    IN  /\ fn = "compound_interest_calculator"
        /\ res.outcome = "selecting"
        /\ frequency_typed' = Append(frequency_typed, entered)
        /\ IF ~parsed.ok THEN
               /\ frequency_printed' =
                      Append(frequency_printed,
                             "Invalid input. Please enter a valid number.")
               /\ UNCHANGED <<compound_frequency, res>>
           ELSE IF ~InFrequencyOptions(parsed.n) THEN
               /\ frequency_printed' =
                      Append(frequency_printed,
                             "Please enter a number between 1 and 5.")
               /\ UNCHANGED <<compound_frequency, res>>
           ELSE
               /\ PowerInRange(args[2], args[3], frequency_options(parsed.n))
               /\ compound_frequency' = frequency_options(parsed.n)
               /\ res' = CompoundResults(args[1], args[2], args[3],
                                         frequency_options(parsed.n))
               /\ UNCHANGED frequency_printed
        /\ UNCHANGED <<fn, args>>

----------------------------------------------------------------------------
(* get_positive_number and get_number *)

\* Lines 49-57 with "if value >= 0".
get_positive_number_step_accepting_zero(text) ==
    LET parsed == float(text)
    IN  IF ~parsed.ok THEN
            [returns |-> FALSE, value |-> None,
             message |-> "Invalid input. Please enter a positive number."]
        ELSE IF FGe(parsed.value, Zero) THEN
            [returns |-> TRUE, value |-> parsed.value, message |-> "none"]
        ELSE
            [returns |-> FALSE, value |-> None,
             message |-> "Please enter a positive number."]

\* Lines 49-57: one iteration of the loop of get_positive_number on the text
\* input() handed out.
get_positive_number_step(text) ==
    LET parsed == float(text)
    IN  IF ~parsed.ok THEN
            [returns |-> FALSE, value |-> None,
             message |-> "Invalid input. Please enter a positive number."]
        ELSE IF FGt(parsed.value, Zero) THEN
            [returns |-> TRUE, value |-> parsed.value, message |-> "none"]
        ELSE
            [returns |-> FALSE, value |-> None,
             message |-> "Please enter a positive number."]

\* Lines 73-78 with the test "if value > 0" of get_positive_number copied in.
get_number_step_rejecting_nonpositive(text) ==
    LET parsed == float(text)
    IN  IF ~parsed.ok THEN
            [returns |-> FALSE, value |-> None,
             message |-> "Invalid input. Please enter a valid number."]
        ELSE IF FGt(parsed.value, Zero) THEN
            [returns |-> TRUE, value |-> parsed.value, message |-> "none"]
        ELSE
            [returns |-> FALSE, value |-> None,
             message |-> "Please enter a positive number."]

\* Lines 73-78: one iteration of the loop of get_number.
get_number_step(text) ==
    LET parsed == float(text)
    IN  IF ~parsed.ok THEN
            [returns |-> FALSE, value |-> None,
             message |-> "Invalid input. Please enter a valid number."]
        ELSE
            [returns |-> TRUE, value |-> parsed.value, message |-> "none"]

\* No validator has been called: nothing read, nothing printed.
NoValidatorCall ==
    /\ pos = 0
    /\ vfn = "none"
    /\ vstart = 0
    /\ vstatus = "idle"
    /\ value = None
    /\ printed = <<>>

\* A caller calls the validator name; the input left by earlier calls is its.
Call(name) ==
    /\ vstatus \in {"idle", "returned"}
    /\ vfn' = name
    /\ vstart' = pos
    /\ vstatus' = "prompting"
    /\ value' = None
    /\ printed' = <<>>
    /\ UNCHANGED <<stdin, pos>>

Call_get_positive_number == Call("get_positive_number")

Call_get_number == Call("get_number")

\* The loop body of the validator name.
Step(name, text) ==
    IF name = "get_positive_number" THEN get_positive_number_step(text)
    ELSE get_number_step(text)

\* One iteration of the validator's loop: input() hands out the next entry,
\* or raises EOFError at the end of the input, which no handler catches.
Iterate(name) ==
    /\ vfn = name
    /\ vstatus = "prompting"
    /\ IF pos = Len(stdin) THEN
           /\ vstatus' = "EOFError"
           /\ UNCHANGED <<pos, value, printed>>
       ELSE
           LET step == Step(name, stdin[pos + 1])
           IN  /\ pos' = pos + 1
               /\ vstatus' = IF step.returns THEN "returned" ELSE "prompting"
               /\ value' = step.value
               /\ printed' = IF step.returns THEN printed
                             ELSE Append(printed, step.message)
    /\ UNCHANGED <<stdin, vfn, vstart>>

Iterate_get_positive_number == Iterate("get_positive_number")

Iterate_get_number == Iterate("get_number")

----------------------------------------------------------------------------
(* budget_tracker *)

\* Lines 280 and 291 without the .lower().
IsDone_case_sensitive(label) == label = <<"d", "o", "n", "e">>

\* Lines 280 and 291: the label that ends an entry loop.
IsDone(label) == lower(label) = <<"d", "o", "n", "e">>

\* Line 300 without the "* 100".
saving_rate_as_fraction(net_income, total) ==
    IF FGt(total, Zero) THEN FDiv(net_income, total) ELSE Zero

\* Line 300.
saving_rate(net_income, total) ==
    IF FGt(total, Zero) THEN FMul(FDiv(net_income, total), F(100)) ELSE Zero

\* Lines 319-324 with "if net_income >= 0".
Classification_surplus_at_zero(net_income) ==
    IF FGe(net_income, Zero) THEN "surplus"
    ELSE IF net_income = Zero THEN "break_even"
    ELSE "deficit"

\* Lines 319-324.
Classification(net_income) ==
    IF FGt(net_income, Zero) THEN "surplus"
    ELSE IF net_income = Zero THEN "break_even"
    ELSE "deficit"

\* Lines 298-324: the figures printed under BUDGET ANALYSIS.
BudgetSummary(income, expenses) ==
    LET net_income == FSub(income, expenses)
    IN  [net_income     |-> net_income,
         saving_rate    |-> saving_rate(net_income, income),
         classification |-> Classification(net_income)]

NoSummary ==
    [net_income |-> None, saving_rate |-> None, classification |-> "none"]

NoBudgetRun ==
    /\ bphase = "idle"
    /\ income_items = <<>>
    /\ expense_items = <<>>
    /\ total_income = Zero
    /\ total_expenses = Zero
    /\ summary = NoSummary
    /\ label_prompts = 0
    /\ labels_typed = <<>>
    /\ amount_requests = 0

\* Lines 268-277: the ledgers and the totals start empty.
StartBudget ==
    /\ bphase = "idle"
    /\ bphase' = "income"
    /\ income_items' = <<>>
    /\ expense_items' = <<>>
    /\ total_income' = Zero
    /\ total_expenses' = Zero
    /\ summary' = NoSummary
    /\ label_prompts' = 0
    /\ labels_typed' = <<>>
    /\ amount_requests' = 0

\* Lines 278-285: one iteration of the income loop; entered is what input()
\* handed out, amount what get_positive_number returned.
IncomeEntry(entered, amount) ==
    LET income_source == strip(entered)
    IN  /\ bphase = "income"
        /\ label_prompts' = label_prompts + 1
        /\ labels_typed' = Append(labels_typed, entered)
        /\ IF IsDone(income_source) THEN
               /\ bphase' = "expenses"
               /\ UNCHANGED <<income_items, total_income, amount_requests>>
           ELSE
               /\ amount_requests' = amount_requests + 1
               /\ income_items' = Append(income_items, <<income_source, amount>>)
               /\ total_income' = FAdd(total_income, amount)
               /\ UNCHANGED bphase
        /\ UNCHANGED <<expense_items, total_expenses, summary>>

\* Lines 289-324: one iteration of the expense loop, and on 'done' the rest of
\* the function.
ExpenseEntry(entered, amount) ==
    LET expense_category == strip(entered)
    IN  /\ bphase = "expenses"
        /\ label_prompts' = label_prompts + 1
        /\ labels_typed' = Append(labels_typed, entered)
        /\ IF IsDone(expense_category) THEN
               /\ bphase' = "summary"
               /\ summary' = BudgetSummary(total_income, total_expenses)
               /\ UNCHANGED <<expense_items, total_expenses, amount_requests>>
           ELSE
               /\ amount_requests' = amount_requests + 1
               /\ expense_items' =
                      Append(expense_items, <<expense_category, amount>>)
               /\ total_expenses' = FAdd(total_expenses, amount)
               /\ UNCHANGED <<bphase, summary>>
        /\ UNCHANGED <<income_items, total_income>>

----------------------------------------------------------------------------
(* main *)

\* The local variable choice before its first assignment.
Unbound == [bound |-> FALSE, n |-> 0]

Bound(n) == [bound |-> TRUE, n |-> n]

\* Lines 446-455.
Calculator(n) ==
    CASE n = 1 -> "loan_payment_calculator"
      [] n = 2 -> "compound_interest_calculator"
      [] n = 3 -> "simple_interest_calculator"
      [] n = 4 -> "budget_tracker"
      [] n = 5 -> "savings_goal_calculator"
      [] OTHER -> "none"

MainNotStarted ==
    /\ pc = "not_started"
    /\ choice = Unbound
    /\ selection = <<>>
    /\ ran = "none"
    /\ message = "none"
    /\ menus = 0

\* Lines 436-437.
Welcome ==
    /\ pc = "not_started"
    /\ pc' = "loop"
    /\ UNCHANGED <<choice, selection, ran, message, menus>>

\* Lines 440-467 up to the pause: one iteration of the loop on the text
\* entered at the selection prompt.  The calculators return to main whatever
\* is entered at their prompts.
MainIteration(entered) ==
    LET parsed      == int(entered)
        new_choice  == IF parsed.ok THEN Bound(parsed.n) ELSE choice
    IN  /\ pc = "loop"
        /\ menus' = menus + 1
        /\ selection' = entered
        /\ choice' = new_choice
        /\ ran' = IF parsed.ok THEN Calculator(parsed.n) ELSE "none"
        /\ message' =
               IF ~parsed.ok THEN "Invalid input. Please enter a valid number."
               ELSE IF parsed.n \in 1..5 THEN "none"
               ELSE IF parsed.n = 6 THEN "Thank you"
               ELSE "Please enter a number between 1 and 6."
        /\ pc' = IF parsed.ok /\ parsed.n = 6 THEN "exited"
                 ELSE IF ~new_choice.bound THEN "UnboundLocalError"
                 ELSE IF new_choice.n \in 1..5 THEN "pause"
                 ELSE "loop"

\* Line 467: whatever is entered ends the pause.
Pause ==
    /\ pc = "pause"
    /\ pc' = "loop"
    /\ UNCHANGED <<choice, selection, ran, message, menus>>

----------------------------------------------------------------------------
(* The calculators run with patched validators, as the tests run them: the *)
(* values the prompts yield are drawn from the sets below.                 *)

\* Values handed over by get_positive_number.
Amounts == {F(500), F(1000)}

\* time_years / years: 3, 12 and 60 months.
Years == {[m |-> 1, e |-> -2], F(1), F(5)}

\* Values handed over by get_number for current_savings.
Savings == {F(-500), F(0), F(500), F(1000), F(2000)}

\* Values handed over by get_number for annual_return, in percent; 1/4 % is
\* a return so small that 1 + monthly_return rounds to 1.
Returns == {F(-3600), F(-2400), F(-1200), F(-600), F(0),
            [m |-> 1, e |-> -2], F(1200)}

\* Loan rates in percent; the tests patch the validator to hand over 0 too.
Rates == {F(0), [m |-> 1, e |-> -2], F(1200), F(3600)}

NoCalculatorRun ==
    /\ fn = "none"
    /\ args = <<>>
    /\ res = None
    /\ compound_frequency = 0
    /\ frequency_typed = <<>>
    /\ frequency_printed = <<>>

\* Nothing has run yet and nothing has been typed.
Init ==
    /\ NoCalculatorRun
    /\ stdin = <<>>
    /\ NoValidatorCall
    /\ NoBudgetRun
    /\ MainNotStarted

RunSavingsGoal ==
    /\ fn = "none"
    /\ \E goal_amount \in Amounts, current_savings \in Savings,
       time_years \in Years, annual_return \in Returns :
           /\ fn' = "savings_goal_calculator"
           /\ args' = <<goal_amount, current_savings, time_years, annual_return>>
           /\ res' = savings_goal_calculator(goal_amount, current_savings,
                                             time_years, annual_return)
    /\ UNCHANGED <<frequencyVars, inputVars, budgetVars, mainVars>>

RunLoanPayment ==
    /\ fn = "none"
    /\ \E principal \in Amounts, annual_rate \in Rates, years \in Years :
           /\ fn' = "loan_payment_calculator"
           /\ args' = <<principal, annual_rate, years>>
           /\ res' = loan_payment_calculator(principal, annual_rate, years)
    /\ UNCHANGED <<frequencyVars, inputVars, budgetVars, mainVars>>

\* The calculator returns to the test that ran it; its locals are gone.
Return ==
    /\ fn # "none"
    /\ fn' = "none"
    /\ args' = <<>>
    /\ res' = None
    /\ UNCHANGED <<frequencyVars, inputVars, budgetVars, mainVars>>

Next ==
    \/ RunSavingsGoal
    \/ RunLoanPayment
    \/ Return

Spec == Init /\ [][Next]_vars

----------------------------------------------------------------------------
(* The validators on a typed input *)

\* Most entries of one input.
MaxInputs == 3

\* What is typed at a prompt: nothing, "abc", "-5", "0", "10", "2.5", " 7 ".
Entries ==
    {<<>>, <<"a", "b", "c">>, <<"-", "5">>, <<"0">>, <<"1", "0">>,
     <<"2", ".", "5">>, <<" ", "7", " ">>}

InputStreams == UNION {[1..n -> Entries] : n \in 0..MaxInputs}

InitInput ==
    /\ NoCalculatorRun
    /\ stdin \in InputStreams
    /\ NoValidatorCall
    /\ NoBudgetRun
    /\ MainNotStarted

NextInput ==
    \/ /\ Call_get_positive_number
       /\ UNCHANGED <<calcVars, budgetVars, mainVars>>
    \/ /\ Call_get_number
       /\ UNCHANGED <<calcVars, budgetVars, mainVars>>
    \/ /\ Iterate_get_positive_number
       /\ UNCHANGED <<calcVars, budgetVars, mainVars>>
    \/ /\ Iterate_get_number
       /\ UNCHANGED <<calcVars, budgetVars, mainVars>>

SpecInput == InitInput /\ [][NextInput]_vars

----------------------------------------------------------------------------
(* budget_tracker with get_positive_number patched, as the tests run it *)

\* Most items of one ledger.
MaxItems == 2

\* What is typed at a label prompt: "done", " Done ", "rent", nothing.
Labels ==
    {<<"d", "o", "n", "e">>, <<" ", "D", "o", "n", "e", " ">>,
     <<"r", "e", "n", "t">>, <<>>}

\* Values handed over by get_positive_number for an amount.
ItemAmounts == {F(300), F(1000)}

NextBudget ==
    \/ /\ StartBudget
       /\ UNCHANGED <<calcVars, inputVars, mainVars>>
    \/ /\ \E entered \in Labels, amount \in ItemAmounts :
              /\ IsDone(strip(entered)) \/ Len(income_items) < MaxItems
              /\ IncomeEntry(entered, amount)
       /\ UNCHANGED <<calcVars, inputVars, mainVars>>
    \/ /\ \E entered \in Labels, amount \in ItemAmounts :
              /\ IsDone(strip(entered)) \/ Len(expense_items) < MaxItems
              /\ ExpenseEntry(entered, amount)
       /\ UNCHANGED <<calcVars, inputVars, mainVars>>

SpecBudget == Init /\ [][NextBudget]_vars

----------------------------------------------------------------------------
(* main on a typed sequence of selections *)

\* Most selections entered in one run of main.
MaxSelections == 3

\* What is typed at the selection prompt: "1" to "7", "0", "-1", "abc",
\* nothing, " 2 ", "2.5".
Selections ==
    {<<"1">>, <<"2">>, <<"3">>, <<"4">>, <<"5">>, <<"6">>, <<"7">>, <<"0">>,
     <<"-", "1">>, <<"a", "b", "c">>, <<>>, <<" ", "2", " ">>,
     <<"2", ".", "5">>}

NextMain ==
    \/ /\ Welcome
       /\ UNCHANGED <<calcVars, inputVars, budgetVars>>
    \/ /\ menus < MaxSelections
       /\ \E entered \in Selections : MainIteration(entered)
       /\ UNCHANGED <<calcVars, inputVars, budgetVars>>
    \/ /\ Pause
       /\ UNCHANGED <<calcVars, inputVars, budgetVars>>

SpecMain == Init /\ [][NextMain]_vars

----------------------------------------------------------------------------
(* compound_interest_calculator with get_positive_number patched, as the   *)
(* tests run it, on a typed sequence of frequency selections               *)

\* Most entries typed at the frequency prompt in one run.
MaxFrequencyEntries == 3

\* Values handed over by get_positive_number for the rate, in percent: 1/64 %
\* is a rate so small that 1 + rate / compound_frequency rounds to 1.
CompoundRates == {[m |-> 1, e |-> -6], F(100), F(200)}

\* Values handed over by get_positive_number for the years.
CompoundYears == {F(1), F(2), F(3)}

\* What is typed at the frequency prompt: "1" to "5", "0", "6", "abc",
\* nothing, " 3 ", "2.5".
FrequencyEntries ==
    {<<"1">>, <<"2">>, <<"3">>, <<"4">>, <<"5">>, <<"0">>, <<"6">>,
     <<"a", "b", "c">>, <<>>, <<" ", "3", " ">>, <<"2", ".", "5">>}

NextCompound ==
    \/ /\ \E principal \in Amounts, annual_rate \in CompoundRates,
             years \in CompoundYears :
              StartCompound(principal, annual_rate, years)
       /\ UNCHANGED <<inputVars, budgetVars, mainVars>>
    \/ /\ Len(frequency_typed) < MaxFrequencyEntries
       /\ \E entered \in FrequencyEntries : SelectFrequency(entered)
       /\ UNCHANGED <<inputVars, budgetVars, mainVars>>

SpecCompound == Init /\ [][NextCompound]_vars

----------------------------------------------------------------------------
(* Claims about savings_goal_calculator *)

IsSavingsRun == fn = "savings_goal_calculator"

\* C4: whenever currentSavings >= goalAmount (equality included), whatever
\* the years and the return, the run ends with the congratulation alone: no
\* monthly savings are computed, no results block and no error is printed.
C4_AlreadyMetShortCircuit ==
    (IsSavingsRun /\ FGe(args[2], args[1])) =>
        /\ res.outcome = "already_met"
        /\ res.monthly_savings = None
        /\ res.total_contributions = None
        /\ res.total_growth = None
        /\ res.narrative = "none"

\* C4 happens: a run with currentSavings == goalAmount and a non-zero return
\* ended with the congratulation.
C4_Witness ==
    /\ IsSavingsRun
    /\ args[2] = args[1]
    /\ args[4] # Zero
    /\ res.outcome = "already_met"

\* C5: for every goalAmount > 0, years > 0, currentSavings and return, the
\* run ends with a results block or the already-met congratulation, never
\* with an error message.
C5_NeverAnError ==
    IsSavingsRun => res.outcome \in {"results", "already_met"}

\* C6: every run that ends without an error ends in exactly one of the three
\* narratives: already met, growth sufficient (monthly savings 0 and savings
\* below the goal), or a positive required contribution.
C6_ThreeNarratives ==
    (IsSavingsRun /\ res.outcome \in {"results", "already_met"}) =>
        \/ /\ res.outcome = "already_met"
           /\ FGe(args[2], args[1])
        \/ /\ res.outcome = "results"
           /\ res.monthly_savings = Zero
           /\ FLt(args[2], args[1])
           /\ res.narrative = "great_news"
        \/ /\ res.outcome = "results"
           /\ FGt(res.monthly_savings, Zero)
           /\ res.narrative = "recommendation"

\* C7: with a return of 0 % and currentSavings < goalAmount, monthlySavings
\* is (goalAmount - currentSavings) / (years * 12), totalContributions is
\* monthlySavings * years * 12 and equals goalAmount - currentSavings, and
\* totalGrowth is 0.
C7_NoGrowth ==
    (IsSavingsRun /\ args[4] = Zero /\ FLt(args[2], args[1])) =>
        /\ res.outcome = "results"
        /\ res.monthly_savings =
               FDiv(FSub(args[1], args[2]), FMul(args[3], F(12)))
        /\ res.total_contributions =
               FMul(res.monthly_savings, FMul(args[3], F(12)))
        /\ res.total_contributions = FSub(args[1], args[2])
        /\ res.total_growth = Zero

----------------------------------------------------------------------------
(* Claims about loan_payment_calculator *)

IsLoanRun == fn = "loan_payment_calculator"

\* C8: with a rate of 0 %, monthlyPayment is principal / (years * 12),
\* totalPayment is the principal and totalInterest is 0.
C8_ZeroRate ==
    (IsLoanRun /\ args[2] = Zero) =>
        /\ res.outcome = "results"
        /\ res.monthly_payment = FDiv(args[1], FMul(args[3], F(12)))
        /\ res.total_payment = args[1]
        /\ res.total_interest = Zero

\* C9: with a rate above 0 %, r = rate/100/12 and n = years*12, monthlyPayment
\* is principal * r * (1+r)^n / ((1+r)^n - 1), totalPayment is monthlyPayment
\* * n and totalInterest is totalPayment - principal and is not negative.
C9_PositiveRate ==
    (IsLoanRun /\ FGt(args[2], Zero)) =>
        LET r   == FDiv(FDiv(args[2], F(100)), F(12))
            n   == FMul(args[3], F(12))
            pow == FPow(FAdd(F(1), r), n)
        IN  /\ res.outcome = "results"
            /\ res.monthly_payment =
                   FDiv(FMul(args[1], FMul(r, pow)), FSub(pow, F(1)))
            /\ res.total_payment = FMul(res.monthly_payment, n)
            /\ res.total_interest = FSub(res.total_payment, args[1])
            /\ FGe(res.total_interest, Zero)

----------------------------------------------------------------------------
(* Claims about the validators *)

\* The text parses as a number, and as a number greater than 0.
Parses(text) == float(text).ok

ParsesPositive(text) == float(text).ok /\ float(text).value.m > 0

\* Entry i is the first one left to the call that parses as a number greater
\* than 0, or that parses as a number.
FirstPositive(i) ==
    /\ i \in vstart + 1..Len(stdin)
    /\ ParsesPositive(stdin[i])
    /\ \A j \in vstart + 1..i - 1 : ~ParsesPositive(stdin[j])

FirstParseable(i) ==
    /\ i \in vstart + 1..Len(stdin)
    /\ Parses(stdin[i])
    /\ \A j \in vstart + 1..i - 1 : ~Parses(stdin[j])

\* C2: when the input left to a call of get_positive_number holds an entry
\* that parses as a number greater than 0, the call does not run out of
\* input, returns the value of the first such entry having consumed the
\* entries up to and including it and no more, and has printed one message
\* for each entry before it: the invalid-input message for an unparsable one,
\* the positive-number message for a zero or negative one.  Whatever the
\* input, a returned value is greater than 0.
C2_FirstPositiveEntry ==
    vfn = "get_positive_number" =>
        /\ vstatus = "returned" => value.m > 0
        /\ \A first \in vstart + 1..Len(stdin) :
               FirstPositive(first) =>
                   /\ vstatus # "EOFError"
                   /\ vstatus = "returned" =>
                          /\ pos = first
                          /\ value = float(stdin[first]).value
                          /\ Len(printed) = first - vstart - 1
                   /\ vstatus = "prompting" =>
                          /\ pos < first
                          /\ Len(printed) = pos - vstart
                   /\ \A k \in DOMAIN printed :
                          printed[k] =
                              IF Parses(stdin[vstart + k])
                              THEN "Please enter a positive number."
                              ELSE "Invalid input. Please enter a positive number."

\* C2 happens: a call that started after an earlier call's entry returned the
\* third entry of the input after rejecting a zero or negative entry.
C2_Witness ==
    /\ vfn = "get_positive_number"
    /\ vstatus = "returned"
    /\ vstart = 1
    /\ pos = 3
    /\ printed = <<"Please enter a positive number.">>

\* C3: when the input left to a call of get_number holds an entry that
\* parses as a number, the call does not run out of input, returns the value
\* of the first such entry whatever its sign having consumed the entries up
\* to and including it and no more, and has printed the invalid-input
\* message once for each (unparsable) entry before it and nothing else.
C3_FirstParseableEntry ==
    vfn = "get_number" =>
        \A first \in vstart + 1..Len(stdin) :
            FirstParseable(first) =>
                /\ vstatus # "EOFError"
                /\ vstatus = "returned" =>
                       /\ pos = first
                       /\ value = float(stdin[first]).value
                       /\ Len(printed) = first - vstart - 1
                /\ vstatus = "prompting" =>
                       /\ pos < first
                       /\ Len(printed) = pos - vstart
                /\ \A k \in DOMAIN printed :
                       /\ ~Parses(stdin[vstart + k])
                       /\ printed[k] =
                              "Invalid input. Please enter a valid number."

\* C3 happens: a call returned a negative value after one unparsable entry,
\* with an entry of the input left unread.
C3_Witness ==
    /\ vfn = "get_number"
    /\ vstatus = "returned"
    /\ value.m < 0
    /\ Len(printed) = 1
    /\ pos < Len(stdin)

----------------------------------------------------------------------------
(* Claims about budget_tracker *)

\* The amounts of the first n items of a ledger, added from left to right.
RECURSIVE SumOfAmounts(_, _)
SumOfAmounts(items, n) ==
    IF n = 0 THEN Zero ELSE FAdd(SumOfAmounts(items, n - 1), items[n][2])

\* C10: in the summary of every budget run, totalIncome and totalExpenses are
\* the sums of the amounts of the two ledgers, netIncome is totalIncome -
\* totalExpenses, and savingsRatePercent is netIncome / totalIncome * 100
\* when totalIncome > 0 and 0 otherwise; with an empty income ledger it is 0.
C10_BudgetSummary ==
    bphase = "summary" =>
        /\ total_income = SumOfAmounts(income_items, Len(income_items))
        /\ total_expenses = SumOfAmounts(expense_items, Len(expense_items))
        /\ summary.net_income = FSub(total_income, total_expenses)
        /\ total_income.m > 0 =>
               summary.saving_rate =
                   FMul(FDiv(summary.net_income, total_income), F(100))
        /\ total_income.m <= 0 => summary.saving_rate = Zero
        /\ income_items = <<>> => summary.saving_rate = Zero

\* C10 happens: a summary of an empty income ledger and two expenses.
C10_Witness ==
    /\ bphase = "summary"
    /\ income_items = <<>>
    /\ Len(expense_items) = 2
    /\ summary.saving_rate = Zero
    /\ summary.net_income.m < 0

----------------------------------------------------------------------------
(* Claims about main *)

\* The text is no selection of the menu: not a number, or outside 1..6.
InvalidSelection(text) == ~int(text).ok \/ int(text).n \notin 1..6

\* C1: main ends only on selection 6, and an iteration whose selection is
\* non-numeric or outside 1..6 runs no calculator, prints a message and
\* goes on to display the menu and prompt again, the first iteration
\* included.
C1_LoopUntilExit ==
    /\ pc \in {"exited", "UnboundLocalError"} =>
           int(selection) = [ok |-> TRUE, n |-> 6]
    /\ (menus > 0 /\ InvalidSelection(selection)) =>
           /\ ran = "none"
           /\ message # "none"
           /\ pc \in {"loop", "pause"}

----------------------------------------------------------------------------
(* Claims about the entry protocol of budget_tracker *)

\* The text is 'done' ignoring case and surrounding blanks.
IsSentinel(text) == lower(strip(text)) = <<"d", "o", "n", "e">>

\* The labels typed at prompts a..b that are no sentinel, stripped, in order.
RECURSIVE LabelsFromTo(_, _)
LabelsFromTo(a, b) ==
    IF a > b THEN <<>>
    ELSE IF IsSentinel(labels_typed[b]) THEN LabelsFromTo(a, b - 1)
    ELSE Append(LabelsFromTo(a, b - 1), strip(labels_typed[b]))

\* The labels of a ledger, in order.
LabelsOf(items) == [i \in DOMAIN items |-> items[i][1]]

\* The prompts at which a sentinel was typed.
SentinelPrompts == {i \in DOMAIN labels_typed : IsSentinel(labels_typed[i])}

\* C11: income entry runs until the first label that is 'done' ignoring case
\* and surrounding blanks, then expense entry runs until the next one; a
\* sentinel is never stored and never followed by an amount request, so the
\* amount requests are as many as the stored items, the label prompts of a
\* finished run are two more, and each ledger holds the labels typed in its
\* phase, in the order typed.
C11_EntryProtocol ==
    bphase # "idle" =>
        LET first == IF SentinelPrompts = {} THEN Len(labels_typed) + 1
                     ELSE CHOOSE i \in SentinelPrompts :
                              \A j \in SentinelPrompts : i <= j
        IN  /\ label_prompts = Len(labels_typed)
            /\ amount_requests = Len(income_items) + Len(expense_items)
            /\ label_prompts = amount_requests + Cardinality(SentinelPrompts)
            /\ bphase = "income" <=> Cardinality(SentinelPrompts) = 0
            /\ bphase = "expenses" <=> Cardinality(SentinelPrompts) = 1
            /\ bphase = "summary" <=>
                   /\ Cardinality(SentinelPrompts) = 2
                   /\ IsSentinel(labels_typed[Len(labels_typed)])
            /\ bphase = "summary" => label_prompts = amount_requests + 2
            /\ LabelsOf(income_items) = LabelsFromTo(1, first - 1)
            /\ LabelsOf(expense_items) =
                   LabelsFromTo(first + 1, Len(labels_typed))
            /\ \A i \in DOMAIN income_items : ~IsSentinel(income_items[i][1])
            /\ \A i \in DOMAIN expense_items :
                   ~IsSentinel(expense_items[i][1])

\* C11 happens: a finished run in which " Done " ended the income entry after
\* two items and one expense was entered.
C11_Witness ==
    /\ bphase = "summary"
    /\ Len(income_items) = 2
    /\ Len(expense_items) = 1
    /\ labels_typed[3] = <<" ", "D", "o", "n", "e", " ">>
    /\ label_prompts = 5

----------------------------------------------------------------------------
(* Claims about the recommendation of budget_tracker *)

\* C12: every finished budget run prints exactly one of the three
\* recommendations and no error: surplus iff netIncome > 0, break-even iff
\* netIncome = 0, deficit iff netIncome < 0; two empty ledgers break even,
\* an empty income ledger with expenses is a deficit.
C12_Classification ==
    bphase = "summary" =>
        /\ summary.classification \in {"surplus", "break_even", "deficit"}
        /\ summary.classification = "surplus" <=> summary.net_income.m > 0
        /\ summary.classification = "break_even" <=> summary.net_income.m = 0
        /\ summary.classification = "deficit" <=> summary.net_income.m < 0
        /\ summary.net_income = FSub(total_income, total_expenses)
        /\ (income_items = <<>> /\ expense_items = <<>>) =>
               summary.classification = "break_even"
        /\ (income_items = <<>> /\ expense_items # <<>>) =>
               summary.classification = "deficit"

\* C12 happens: a finished run with two empty ledgers broke even.
C12_Witness ==
    /\ bphase = "summary"
    /\ income_items = <<>>
    /\ expense_items = <<>>
    /\ label_prompts = 2
    /\ summary.classification = "break_even"

----------------------------------------------------------------------------
(* Claims about compound_interest_calculator *)

IsCompoundRun == fn = "compound_interest_calculator"

\* The text is one of the menu choices 1 to 5.
IsFrequencyChoice(text) == int(text).ok /\ int(text).n \in {1, 2, 3, 4, 5}

\* C13: the compounding frequency used in the computation is a member of
\* {1, 2, 4, 12, 365}, namely the one the menu gives for the first typed entry
\* that is a choice 1..5 (1, 2, 4, 12, 365 in that order); every entry before
\* it, an integer outside 1..5 or a non-integer, is rejected with a message
\* and no computation is made from it.
C13_FrequencySelection ==
    IsCompoundRun =>
        LET n == Len(frequency_typed)
        IN  /\ res.outcome = "selecting" =>
                   /\ compound_frequency = 0
                   /\ res.final_amount = None
                   /\ \A i \in 1..n : ~IsFrequencyChoice(frequency_typed[i])
                   /\ Len(frequency_printed) = n
            /\ res.outcome = "results" =>
                   /\ n >= 1
                   /\ IsFrequencyChoice(frequency_typed[n])
                   /\ \A i \in 1..n - 1 :
                          ~IsFrequencyChoice(frequency_typed[i])
                   /\ Len(frequency_printed) = n - 1
                   /\ compound_frequency \in {1, 2, 4, 12, 365}
                   /\ compound_frequency =
                          CASE int(frequency_typed[n]).n = 1 -> 1
                            [] int(frequency_typed[n]).n = 2 -> 2
                            [] int(frequency_typed[n]).n = 3 -> 4
                            [] int(frequency_typed[n]).n = 4 -> 12
                            [] int(frequency_typed[n]).n = 5 -> 365
                   /\ res.compounding = compound_frequency
                   /\ res.final_amount =
                          FMul(args[1],
                               FPow(FAdd(F(1),
                                         FDiv(FDiv(args[2], F(100)),
                                              F(compound_frequency))),
                                    FMul(F(compound_frequency), args[3])))
            /\ \A i \in DOMAIN frequency_printed :
                   frequency_printed[i] =
                       IF int(frequency_typed[i]).ok
                       THEN "Please enter a number between 1 and 5."
                       ELSE "Invalid input. Please enter a valid number."

\* C13 happens: after "abc" and "6" were rejected, " 3 " selected quarterly
\* compounding and the results were computed with 4.
C13_Witness ==
    /\ IsCompoundRun
    /\ res.outcome = "results"
    /\ frequency_typed = <<<<"a", "b", "c">>, <<"6">>, <<" ", "3", " ">>>>
    /\ compound_frequency = 4
    /\ res.compounding = 4
    /\ res.interest_earned.m > 0

\* C14: in every results block finalAmount is principal * (1 +
\* rate / compoundsPerYear) ^ (compoundsPerYear * years) with rate =
\* annualRatePercent / 100, it is above the principal, interestEarned is
\* finalAmount - principal and above 0, one more year gives a larger
\* finalAmount, and with annual compounding finalAmount is principal *
\* (1 + rate) ^ years.
C14_CompoundGrowth ==
    (IsCompoundRun /\ res.outcome = "results") =>
        LET principal == args[1]
            rate      == FDiv(args[2], F(100))
            years     == args[3]
            per_year  == F(res.compounding)
            more      == FAdd(years, F(1))
        IN  /\ res.final_amount =
                   FMul(principal,
                        FPow(FAdd(F(1), FDiv(rate, per_year)),
                             FMul(per_year, years)))
            /\ FGt(res.final_amount, principal)
            /\ res.interest_earned = FSub(res.final_amount, principal)
            /\ FGt(res.interest_earned, Zero)
            /\ PowerInRange(args[2], more, res.compounding) =>
                   FGt(CompoundResults(principal, args[2], more,
                                       res.compounding).final_amount,
                       res.final_amount)
            /\ res.compounding = 1 =>
                   res.final_amount =
                       FMul(principal, FPow(FAdd(F(1), rate), years))

----------------------------------------------------------------------------
(* Further claims about main and loan_payment_calculator *)

\* C15: the pause is requested in an iteration only if a calculator was run
\* in that same iteration: main waits at the pause only after an iteration
\* whose selection was one of 1..5 and ran the calculator of that selection,
\* never after a non-numeric or out-of-range selection.
C15_PauseIffCalculatorRan ==
    pc = "pause" =>
        /\ ~InvalidSelection(selection)
        /\ ran # "none"
        /\ ran = Calculator(int(selection).n)

\* C16: a loan run whose three values are all above 0 always reaches the
\* results block: the monthly rate is above 0, (1 + monthlyRate) ^ numPayments
\* - 1 is above 0, neither error message is printed, and three values were
\* prompted for.
C16_PositiveInputsReachResults ==
    (IsLoanRun /\ args[1].m > 0 /\ args[2].m > 0 /\ args[3].m > 0) =>
        LET monthly_rate == FDiv(FDiv(args[2], F(100)), F(12))
            num_payments == FMul(args[3], F(12))
        IN  /\ Len(args) = 3
            /\ monthly_rate.m > 0
            /\ FSub(FPow(FAdd(F(1), monthly_rate), num_payments), F(1)).m > 0
            /\ res.outcome \notin {"error_zero_term", "error_cannot_calculate"}
            /\ res.outcome = "results"

====
